---- MODULE Spec2Model ----
(***************************************************************************)
(* Model of the inventory agent service                                    *)
(* (src/src/inventoryagentservice/inventory_agent_service.py).             *)
(*                                                                         *)
(* Numbers.  The Python code computes in floating point; here every real   *)
(* is a fixed-point integer:                                               *)
(*   - demands, interval bounds, standard deviation: thousandths (milli);  *)
(*   - seasonality_factor, confidence_score: thousandths;                  *)
(*   - external impacts: units of 1/ImpactScale (exact for the draws used);*)
(*   - random draws: percent (uniform draws), tenths (weather table).      *)
(* int(x) is truncation toward zero (PyInt), x / y raises on a Python      *)
(* float zero divisor and yields inf/nan on a numpy one.                   *)
(***************************************************************************)
EXTENDS Integers, Sequences, FiniteSets, TLC

VARIABLES
    pc,             \* position of the request handler: "idle" or the remote call it waits on
    request,        \* the request being handled / last handled
    response,       \* the response of `request`, NoResponse while it is handled
    idx,            \* get_inventory_recommendations: index of the product being processed
    recommendations,\* get_inventory_recommendations: the local list `recommendations`
    locals,         \* forecast_demand / generate_recommendation locals held across llm.invoke
    calls,          \* remote text-generation calls made for `request`, in order
    cause,          \* which step raised while handling `request` ("none" if none)
    served,         \* number of requests accepted so far
    learning_data,  \* InventoryAgent.learning_data
    rng,            \* what the random module yields to the next forecast_demand
    unit            \* direct call of a component operation: its input, then its result

vars == <<pc, request, response, idx, recommendations, locals, calls, cause,
          served, learning_data, rng, unit>>

----------------------------------------------------------------------------
(* Bounds of the model *)

MaxRequests == 2        \* requests accepted in one behaviour
MaxProducts == 2        \* length of a products list
MaxUnitSale == 2        \* direct calls: per-day sales levels 0..MaxUnitSale
MaxUnitStep == 12       \* direct calls: predicted_demand = k * UnitStep, k in 0..MaxUnitStep

(* Program constants *)

HistoryDays == 30       \* forecast_demand: generate_mock_sales_data(product_id, 30)
RecentDays == 7         \* forecast_demand: sales_values[-7:]
DefaultForecastDays == 7
MinSafetyStock == 5     \* generate_recommendation: max(5, ...)
MinTemperature == -10   \* get_weather_data: random.randint(-10, 35)
MaxTemperature == 35

(* Fixed-point denominators *)

Milli == 1000
ImpactScale == 50000    \* 0.2 * tenths, 0.1 * mean of 5 thousandths, 0.15 * percent

----------------------------------------------------------------------------
(* Arithmetic helpers *)

Max(a, b) == IF a >= b THEN a ELSE b
Min(a, b) == IF a <= b THEN a ELSE b
Abs(a) == IF a >= 0 THEN a ELSE -a

\* Mutant of PyInt: round to the nearest integer instead of truncating
PyIntRounds(num, den) == (2 * num + den) \div (2 * den)

\* Python int(num/den) for den > 0: truncation toward zero.
PyInt(num, den) == IF num >= 0 THEN num \div den ELSE -((-num) \div den)

RECURSIVE SqrtSearch(_, _, _)
\* binary search; each midpoint is bound to its value before the next step
SqrtSearch(n, lo, hi) ==
    IF lo >= hi THEN lo
    ELSE CHOOSE r \in {IF mid * mid <= n THEN SqrtSearch(n, mid, hi)
                       ELSE SqrtSearch(n, lo, mid - 1) :
                          mid \in {(lo + hi + 1) \div 2}} : TRUE

\* floor(sqrt(n)), n >= 0
Isqrt(n) == CHOOSE r \in {SqrtSearch(m, 0, Min(m, 46340)) : m \in {n}} : TRUE

RECURSIVE SumOver(_, _, _)
\* sum of f[i] for i in lo..hi
SumOver(f, lo, hi) == IF lo > hi THEN 0 ELSE f[lo] + SumOver(f, lo + 1, hi)

----------------------------------------------------------------------------
(* ExternalDataCollector *)

WeatherConditions == <<"sunny", "rainy", "cloudy", "snowy", "stormy">>

\* impact_map, in tenths; impact_map.get(condition, 0.0)
ImpactMap(condition) ==
    CASE condition = "sunny" -> 1
      [] condition = "rainy" -> 3
      [] condition = "cloudy" -> 0
      [] condition = "snowy" -> 4
      [] condition = "stormy" -> 2
      [] OTHER -> 0

\* Mutant of CalculateWeatherImpact: the extreme temperatures include 0 and 30
CalculateWeatherImpactInclusive(condition, temperature) ==
    LET base_impact == ImpactMap(condition)
        bumped == IF temperature <= 0 \/ temperature >= 30
                  THEN base_impact + 2 ELSE base_impact
    IN  Min(bumped, 10)

\* _calculate_weather_impact, in tenths
CalculateWeatherImpact(condition, temperature) ==
    LET base_impact == ImpactMap(condition)
        bumped == IF temperature < 0 \/ temperature > 30
                  THEN base_impact + 2 ELSE base_impact
    IN  Min(bumped, 10)

\* get_weather_data for the draws (temperature, condition)
GetWeatherData(temperature, condition) ==
    [temperature |-> temperature,
     condition |-> condition,
     impact_score |-> CalculateWeatherImpact(condition, temperature)]

SocialNames == <<"sustainable_fashion", "outdoor_activities", "work_from_home",
                 "tech_accessories", "health_fitness">>
\* the factor each random.random() is multiplied by, in tenths
SocialRange == <<5, 3, 4, 6, 3>>

\* get_social_trends for the five draws r (percent, 0..99): values in thousandths
GetSocialTrends(r) == [k \in 1..5 |-> r[k] * SocialRange[k]]

\* get_economic_indicators: consumer_confidence in percent (the one indicator read)
GetEconomicIndicators(cc) == [consumer_confidence |-> cc]

----------------------------------------------------------------------------
(* DemandForecastingEngine.generate_mock_sales_data *)

IsWeekend(i) == (i % 7) \in {5, 6}

\* weekly_multiplier, in tenths
WeeklyMultiplier(i) == IF IsWeekend(i) THEN 12 ELSE 9

\* One day's sales: base_demand, day i (0-based), the day's trend draw u
\* (random.uniform(-0.3, 0.3), percent) and noise draw n (random.uniform(0.7,
\* 1.3), percent):  max(0, int(base * weekly_multiplier * trend * noise)),
\* trend = 1 + (i / days) * u.
DaySales(base, i, u, n) ==
    LET demand == PyInt(base * WeeklyMultiplier(i) * (100 * HistoryDays + i * u) * n,
                        10 * (100 * HistoryDays) * 100)
    IN  Max(0, demand)

\* The sales of the 30 days; element k is day i = k - 1.  us, ns: the draws per day.
GenerateMockSalesData(base, us, ns) ==
    [k \in 1..HistoryDays |-> DaySales(base, k - 1, us[k], ns[k])]

----------------------------------------------------------------------------
(* Floating-point special values (numpy float64 division by zero) *)

FloatInf == 2^30
FloatNegInf == -(2^30)
FloatNaN == 2^30 + 1

\* numpy true division num/den scaled by `scale`: x/0 is inf, 0/0 is nan (a
\* RuntimeWarning, no exception).  num >= 0, den >= 0.
NpDiv(num, den, scale) ==
    IF den = 0 THEN (IF num = 0 THEN FloatNaN ELSE FloatInf)
    ELSE (num * scale) \div den

\* Python max(a, b) on floats: a unless b > a (every comparison with nan is false)
PyMax(a, b) ==
    IF b = FloatNaN \/ b = FloatNegInf THEN a
    ELSE IF b = FloatInf THEN b
    ELSE Max(a, b)

\* Python min(a, b) on floats: a unless b < a
PyMin(a, b) ==
    IF b = FloatNaN \/ b = FloatInf THEN a
    ELSE IF b = FloatNegInf THEN b
    ELSE Min(a, b)

----------------------------------------------------------------------------
(* DemandForecastingEngine.forecast_demand *)

WeekendDays == {k \in 1..HistoryDays : IsWeekend(k - 1)}
WeekdayDays == {k \in 1..HistoryDays : ~IsWeekend(k - 1)}

Sum(sales) == SumOver(sales, 1, Len(sales))
SumSq(sales) == SumOver([k \in 1..Len(sales) |-> sales[k] * sales[k]], 1, Len(sales))
WeekendSum(sales) ==
    SumOver([k \in 1..Len(sales) |-> IF IsWeekend(k - 1) THEN sales[k] ELSE 0], 1, Len(sales))
WeekdaySum(sales) ==
    SumOver([k \in 1..Len(sales) |-> IF IsWeekend(k - 1) THEN 0 ELSE sales[k]], 1, Len(sales))
\* sum of sales_values[-7:]
RecentSum(sales) == SumOver(sales, Len(sales) - RecentDays + 1, Len(sales))

\* Numerator of the least-squares slope of sales against x = 0..n-1,
\* n*sum(x*y) - sum(x)*sum(y); the denominator n*sum(x^2) - sum(x)^2 is positive.
SlopeNum(sales) ==
    LET n == Len(sales)
        sxy == SumOver([k \in 1..n |-> (k - 1) * sales[k]], 1, n)
        sx == SumOver([k \in 1..n |-> k - 1], 1, n)
    IN  n * sxy - sx * Sum(sales)

Sign(a) == IF a > 0 THEN 1 ELSE IF a < 0 THEN -1 ELSE 0

IsConstant(sales) == \A k \in 1..Len(sales) : sales[k] = sales[1]

\* Line 172: the sign of the slope stats.linregress returns (cov(x, y) / var(x)
\* in float64).  A constant history has deviations that are all exactly 0, so
\* the slope is 0; a slope that is not 0 is far above the rounding error
\* and keeps its sign; for a history that is not constant and whose exact
\* slope is 0 the deviations from the mean are rounded and their products
\* need not cancel, so the float is 0 or a rounding residue of either sign,
\* depending on the order of summation.
LinregressSlopeSigns(sales) ==
    IF SlopeNum(sales) # 0 \/ IsConstant(sales)
    THEN {Sign(SlopeNum(sales))}
    ELSE {-1, 0, 1}

\* Mutant of TrendDirection: a slope of 0 counts as increasing
TrendDirectionNonStrict(slope) ==
    IF slope >= 0 THEN "increasing" ELSE "decreasing"

\* Line 173, slope: the (sign of the) slope returned by linregress
TrendDirection(slope) ==
    IF slope > 0 THEN "increasing"
    ELSE IF slope < 0 THEN "decreasing"
    ELSE "stable"

\* Mutant of SeasonalityFactor: the guard on weekday_avg is missing
SeasonalityFactorUnguarded(sales) ==
    NpDiv(WeekendSum(sales) * Cardinality(WeekdayDays),
          WeekdaySum(sales) * Cardinality(WeekendDays), Milli)

\* seasonality_factor = weekend_avg / weekday_avg if weekday_avg > 0 else 1.0,
\* in thousandths; the averages are numpy float64.
SeasonalityFactor(sales) ==
    LET weekend_sum == WeekendSum(sales)
        weekday_sum == WeekdaySum(sales)
    IN  IF weekday_sum > 0
        THEN NpDiv(weekend_sum * Cardinality(WeekdayDays),
                   weekday_sum * Cardinality(WeekendDays), Milli)
        ELSE Milli

\* 1.96 * np.std(sales_values), in thousandths.  The population standard
\* deviation is sqrt(v) / n with v = n*sum(y^2) - sum(y)^2; sqrt(v) is taken
\* to a tenth, so 1.96 * 1000 * (Isqrt(100 v) / 10) / n = 196 * Isqrt(100 v) / n.
Margin(sales) ==
    LET n == Len(sales)
        v == n * SumSq(sales) - Sum(sales) * Sum(sales)
    IN  (196 * Isqrt(100 * v)) \div n

\* Lines 159-205: everything forecast_demand computes before llm.invoke.
\* slope: the slope linregress returned for sales_values.
ForecastLocals(product_id, forecast_days, sales_values, slope, weather_data, social_trends, economic_data) ==
    [product_id |-> product_id,
     forecast_days |-> forecast_days,
     sales_values |-> sales_values,
     weather_data |-> weather_data,
     social_trends |-> social_trends,
     economic_data |-> economic_data,
     slope |-> slope,
     trend_direction |-> TrendDirection(slope),
     seasonality_factor |-> SeasonalityFactor(sales_values)]

\* weather_impact, social_impact, economic_impact in units of 1/ImpactScale
WeatherImpact(weather_data) == weather_data.impact_score * ((ImpactScale \div 10) \div 5)
SocialImpact(social_trends) == SumOver(social_trends, 1, 5)
EconomicImpact(economic_data) ==
    economic_data.consumer_confidence * ((15 * ImpactScale) \div (100 * 100))

\* adjusted_forecast = base_forecast * (1 + weather + social + economic), thousandths
AdjustedForecast(sales_values, weather_data, social_trends, economic_data) ==
    LET factor == ImpactScale + WeatherImpact(weather_data)
                  + SocialImpact(social_trends) + EconomicImpact(economic_data)
    IN  (RecentSum(sales_values) * factor) \div ((RecentDays * ImpactScale) \div Milli)

\* Mutant of ConfidenceInterval: the lower bound is not clamped at 0
ConfidenceIntervalUnclamped(adjusted_forecast, margin) ==
    <<adjusted_forecast - margin, adjusted_forecast + margin>>

\* confidence_interval = (max(0, adjusted - 1.96*std), adjusted + 1.96*std)
ConfidenceInterval(adjusted_forecast, margin) ==
    <<Max(0, adjusted_forecast - margin), adjusted_forecast + margin>>

\* Mutant of FinishForecast: the forecast is raised when the reply is "reply B"
FinishForecastReadsReply(l, ai_response) ==
    LET adjusted_forecast == AdjustedForecast(l.sales_values, l.weather_data,
                                              l.social_trends, l.economic_data)
                             + (IF ai_response = "reply B" THEN Milli ELSE 0)
    IN  [product_id |-> l.product_id,
         forecast_period_days |-> l.forecast_days,
         predicted_demand |-> adjusted_forecast,
         confidence_interval |-> ConfidenceInterval(adjusted_forecast, Margin(l.sales_values)),
         trend_direction |-> l.trend_direction,
         seasonality_factor |-> l.seasonality_factor,
         external_signals |-> [weather_impact |-> WeatherImpact(l.weather_data),
                               social_impact |-> SocialImpact(l.social_trends),
                               economic_impact |-> EconomicImpact(l.economic_data)],
         float_type |-> "numpy.float64"]

\* Lines 209-238: what forecast_demand returns once llm.invoke has returned.
\* ai_response is not read.
FinishForecast(l, ai_response) ==
    LET adjusted_forecast == AdjustedForecast(l.sales_values, l.weather_data,
                                              l.social_trends, l.economic_data)
    IN  [product_id |-> l.product_id,
         forecast_period_days |-> l.forecast_days,
         predicted_demand |-> adjusted_forecast,
         confidence_interval |-> ConfidenceInterval(adjusted_forecast, Margin(l.sales_values)),
         trend_direction |-> l.trend_direction,
         seasonality_factor |-> l.seasonality_factor,
         external_signals |-> [weather_impact |-> WeatherImpact(l.weather_data),
                               social_impact |-> SocialImpact(l.social_trends),
                               economic_impact |-> EconomicImpact(l.economic_data)],
         float_type |-> "numpy.float64"]

----------------------------------------------------------------------------
(* InventoryOptimizer.generate_recommendation *)

\* Lines 252-260: the metrics computed before llm.invoke.  predicted_demand
\* and the interval are in thousandths; 0.3, 0.5, 0.2, 1.5 are tenths.
SafetyStock(predicted_demand) ==
    Max(MinSafetyStock, PyInt(predicted_demand * 3, 10 * Milli))

ReorderPoint(predicted_demand, safety_stock) ==
    PyInt(predicted_demand * 5 + safety_stock * 10 * Milli, 10 * Milli)

ForecastUncertainty(confidence_interval) ==
    Abs(confidence_interval[2] - confidence_interval[1])

BufferStock(forecast_uncertainty) == PyInt(forecast_uncertainty * 2, 10 * Milli)

\* Mutant of RecommendedStock: the factor 1.5 is missing
RecommendedStockUncovered(predicted_demand, buffer_stock) ==
    PyInt(predicted_demand * 10 + buffer_stock * 10 * Milli, 10 * Milli)

RecommendedStock(predicted_demand, buffer_stock) ==
    PyInt(predicted_demand * 15 + buffer_stock * 10 * Milli, 10 * Milli)

RecommendLocals(product_id, current_stock, demand_forecast) ==
    LET safety_stock == SafetyStock(demand_forecast.predicted_demand)
        forecast_uncertainty == ForecastUncertainty(demand_forecast.confidence_interval)
        buffer_stock == BufferStock(forecast_uncertainty)
    IN  [product_id |-> product_id,
         current_stock |-> current_stock,
         demand_forecast |-> demand_forecast,
         safety_stock |-> safety_stock,
         reorder_point |-> ReorderPoint(demand_forecast.predicted_demand, safety_stock),
         forecast_uncertainty |-> forecast_uncertainty,
         buffer_stock |-> buffer_stock,
         recommended_stock |-> RecommendedStock(demand_forecast.predicted_demand,
                                                buffer_stock)]

\* Line 293: forecast_uncertainty / predicted_demand raises ZeroDivisionError
\* when both are Python floats and predicted_demand is 0; numpy float64
\* operands give inf or nan instead.
AccuracyDivisionRaises(demand_forecast) ==
    demand_forecast.predicted_demand = 0 /\ demand_forecast.float_type = "float"

\* Lines 293-294, in thousandths:
\* forecast_accuracy * 0.8 + 0.2 = 1 - 0.8 * uncertainty / predicted_demand
ConfidenceScore(forecast_uncertainty, predicted_demand) ==
    LET ratio == NpDiv(forecast_uncertainty, predicted_demand, 800)
        raw == IF ratio = FloatNaN THEN FloatNaN
               ELSE IF ratio = FloatInf THEN FloatNegInf
               ELSE Milli - ratio
    IN  PyMin(950, PyMax(100, raw))

SignalNames == <<"weather_impact", "social_impact", "economic_impact">>

\* Lines 297-301: the signals whose |impact| > 0.1, in dict order, annotated
FactorText(factor, impact) ==
    <<factor, IF impact > 0 THEN "increasing demand" ELSE "decreasing demand">>

\* Mutant of ExternalFactors: an impact of exactly 0.1 is listed too
ExternalFactorsInclusive(external_signals) ==
    LET keep(k) == Abs(external_signals[SignalNames[k]]) * 10 >= ImpactScale
        one(k) == IF keep(k)
                  THEN <<FactorText(SignalNames[k], external_signals[SignalNames[k]])>>
                  ELSE <<>>
    IN  one(1) \o one(2) \o one(3)

ExternalFactors(external_signals) ==
    LET keep(k) == Abs(external_signals[SignalNames[k]]) * 10 > ImpactScale
        one(k) == IF keep(k)
                  THEN <<FactorText(SignalNames[k], external_signals[SignalNames[k]])>>
                  ELSE <<>>
    IN  one(1) \o one(2) \o one(3)

\* Lines 292-312: the InventoryRecommendation returned once llm.invoke has
\* returned ai_reasoning (when the accuracy division does not raise).
FinishRecommendation(l, ai_reasoning) ==
    [product_id |-> l.product_id,
     current_stock |-> l.current_stock,
     recommended_stock |-> l.recommended_stock,
     reorder_point |-> l.reorder_point,
     demand_forecast |-> l.demand_forecast.predicted_demand,
     confidence_score |-> ConfidenceScore(l.forecast_uncertainty,
                                          l.demand_forecast.predicted_demand),
     reasoning |-> ai_reasoning,
     external_factors |-> ExternalFactors(l.demand_forecast.external_signals)]

----------------------------------------------------------------------------
(* Inputs: request bodies, random draws, replies and failures of the remote
   text-generation API *)

None == "None"              \* what dict.get returns for a missing key
\* Mutant of Truthy: "is not None" in place of truthiness
TruthyUnlessNone(product_id) == product_id # None

\* Python truthiness of a product_id: None and "" are falsy
Truthy(product_id) == product_id # None /\ product_id # ""

HasKey(d, key) == key \in DOMAIN d
\* d.get(key, default)
Get(d, key, default) == IF HasKey(d, key) THEN d[key] ELSE default

ProductIds == {"OLJCESPC7Z", "66VCHSJNUP"}

ForecastBodies ==
    {[product_id |-> p, forecast_days |-> 14] : p \in ProductIds \cup {""}}
    \cup {[product_id |-> p] : p \in ProductIds}
    \cup {[forecast_days |-> 14], [name |-> "Sunglasses"]}

\* entries of a products list: with and without product_id and current_stock
ProductEntries ==
    {[product_id |-> "OLJCESPC7Z", current_stock |-> 45],
     [product_id |-> "66VCHSJNUP"],
     [current_stock |-> 23],
     [product_id |-> ""]}

RECURSIVE SeqsUpTo(_, _)
\* the sequences over S of length 0..n
SeqsUpTo(S, n) ==
    IF n = 0 THEN {<<>>}
    ELSE LET shorter == SeqsUpTo(S, n - 1)
         IN  shorter \cup {Append(q, x) : q \in {t \in shorter : Len(t) = n - 1}, x \in S}

RecommendationBodies ==
    {[products |-> ps] : ps \in SeqsUpTo(ProductEntries, MaxProducts)}
    \cup {[name |-> "Sunglasses"]}

Replies == {"reply A", "reply B"}
\* the reasoning texts the service-level specification draws from
ServiceReasonings == {"reasoning A"}
LlmErrors == {"429 quota exceeded", "503 unavailable"}

Const(v) == [k \in 1..HistoryDays |-> v]
Alternating(v, w) == [k \in 1..HistoryDays |-> IF k % 2 = 1 THEN v ELSE w]

Split(v, w, at) == [k \in 1..HistoryDays |-> IF k <= at THEN v ELSE w]

\* per-day draws of random.uniform(-0.3, 0.3) and random.uniform(0.7, 1.3), percent
TrendDraws == {Const(-30), Const(30), Alternating(30, -30), Split(30, -30, 15)}
NoiseDraws == {Const(70), Const(130), Alternating(70, 130), Split(130, 70, 15)}
BaseDraws == {10, 37, 100}              \* random.randint(10, 100)
TemperatureDraws == {-1, 0, 30, 31}     \* random.randint(-10, 35)
ConditionDraws == {WeatherConditions[k] : k \in 1..5}
SocialDraws == {<<0, 0, 0, 0, 0>>, <<99, 99, 99, 99, 99>>}  \* random.random(), percent
ConfidenceDraws == {30, 90}             \* random.uniform(0.3, 0.9), percent

Draw(base, us, ns, t, c, r, cc) ==
    [base |-> base, trend |-> us, noise |-> ns, temperature |-> t,
     condition |-> c, social |-> r, confidence |-> cc]

\* every combination of the draws above
WideDraws ==
    {Draw(b, us, ns, t, c, r, cc) :
        b \in BaseDraws, us \in TrendDraws, ns \in NoiseDraws,
        t \in TemperatureDraws, c \in ConditionDraws, r \in SocialDraws,
        cc \in ConfidenceDraws}

\* the stream of draws the service-level specification uses: the random
\* module yields them in turn, starting anywhere
ServiceDrawStream ==
    <<Draw(10, Const(-30), Const(70), 10, "cloudy", <<0, 0, 0, 0, 0>>, 30),
      Draw(100, Const(30), Const(130), 35, "snowy", <<99, 99, 99, 99, 99>>, 90),
      Draw(37, Split(30, -30, 15), Split(130, 70, 15), -1, "rainy",
           <<50, 0, 99, 10, 70>>, 62)>>

ServiceDraws == {ServiceDrawStream[k] : k \in 1..Len(ServiceDrawStream)}

\* the draws that follow d in the stream
NextServiceDraws(d) ==
    {ServiceDrawStream[(k % Len(ServiceDrawStream)) + 1] :
        k \in {j \in 1..Len(ServiceDrawStream) : ServiceDrawStream[j] = d}}

\* forecast_demand up to llm.invoke, for the draws d and the slope linregress
\* returns
StartForecast(product_id, forecast_days, d, slope) ==
    ForecastLocals(product_id, forecast_days,
                   GenerateMockSalesData(d.base, d.trend, d.noise), slope,
                   GetWeatherData(d.temperature, d.condition),
                   GetSocialTrends(d.social),
                   GetEconomicIndicators(d.confidence))

----------------------------------------------------------------------------
(* The Flask application: one request is handled at a time; a handler runs
   until it answers or until it waits on the remote text-generation API.
   Every action that enters forecast_demand takes the set D of the draws the
   random module may yield after the ones it consumes. *)

NoRequest == [endpoint |-> "none"]
NoResponse == [status |-> 0]
NoLocals == [step |-> "none"]
NoUnit == [op |-> "none"]

Respond(status, body) == [status |-> status, body |-> body]
ErrorBody(message) == [error |-> message]

\* create_app: the agent is constructed, no request is being handled
InitApp ==
    /\ pc = "idle"
    /\ request = NoRequest
    /\ response = NoResponse
    /\ idx = 0
    /\ recommendations = <<>>
    /\ locals = NoLocals
    /\ calls = <<>>
    /\ cause = "none"
    /\ served = 0
    /\ learning_data = <<>>     \* InventoryAgent.__init__

Init == InitApp /\ rng \in ServiceDraws /\ unit = NoUnit

\* A request is accepted: the handler's locals are fresh.
Accept(endpoint, body) ==
    /\ pc = "idle"
    /\ served < MaxRequests
    /\ served' = served + 1
    /\ request' = [endpoint |-> endpoint, body |-> body]
    /\ cause' = "none"

\* Mutant of Answer: the response is written but the handler does not return
AnswerWithoutReturning(status, body) ==
    /\ response' = Respond(status, body)
    /\ pc' = pc
    /\ idx' = 0
    /\ recommendations' = <<>>
    /\ locals' = NoLocals

\* The handler returns (status, body).
Answer(status, body) ==
    /\ response' = Respond(status, body)
    /\ pc' = "idle"
    /\ idx' = 0
    /\ recommendations' = <<>>
    /\ locals' = NoLocals

\* GET /health
HealthCheck ==
    /\ Accept("/health", <<>>)
    /\ Answer(200, [status |-> "healthy", service |-> "inventoryagentservice"])
    /\ calls' = <<>>
    /\ UNCHANGED <<learning_data, rng, unit>>

\* forecast_demand(product_id, forecast_days) runs up to llm.invoke, consuming
\* the random draws
EnterForecast(product_id, forecast_days, D) ==
    /\ \E slope \in LinregressSlopeSigns(GenerateMockSalesData(rng.base, rng.trend, rng.noise)) :
          locals' = StartForecast(product_id, forecast_days, rng, slope)
    /\ rng' \in D
    /\ pc' = "forecast_llm"
    /\ response' = NoResponse

\* Mutant of ProductIdMissing: the check is missing
ProductIdMissingNever(product_id) == FALSE

\* Line 385: if not product_id
ProductIdMissing(product_id) == ~Truthy(product_id)

\* POST /forecast, lines 378-389 up to llm.invoke inside forecast_demand
GenerateForecast(body, D) ==
    /\ Accept("/forecast", body)
    /\ LET product_id == Get(body, "product_id", None)
           forecast_days == Get(body, "forecast_days", DefaultForecastDays)
       IN  IF ProductIdMissing(product_id)
           THEN /\ Answer(400, ErrorBody("product_id is required"))
                /\ calls' = <<>>
                /\ UNCHANGED rng
           ELSE /\ EnterForecast(product_id, forecast_days, D)
                /\ calls' = <<[step |-> "forecast", product |-> 0]>>
                /\ UNCHANGED <<idx, recommendations>>
    /\ UNCHANGED <<learning_data, unit>>

\* The first index after `from` of an entry whose product_id is truthy
\* (the entries the loop of lines 406-412 skips are passed over); 0 if none.
NextProduct(products, from) ==
    LET rest == {k \in (from + 1)..Len(products) :
                    Truthy(Get(products[k], "product_id", None))}
    IN  IF rest = {} THEN 0 ELSE CHOOSE k \in rest : \A j \in rest : k <= j

\* Lines 406-414: the loop runs from the entry after `from` until
\* process_product waits on forecast_demand's llm.invoke, or until it ends and
\* the handler answers 200.
LoopFrom(products, from, recs, made, D) ==
    LET k == NextProduct(products, from)
    IN  IF k = 0
        THEN /\ Answer(200, [recommendations |-> recs])
             /\ calls' = made
             /\ UNCHANGED rng
        ELSE /\ idx' = k
             /\ recommendations' = recs
             /\ EnterForecast(products[k].product_id, DefaultForecastDays, D)
             /\ calls' = Append(made, [step |-> "forecast", product |-> k])

\* Mutant of ProductsMissing: the check is missing
ProductsMissingNever(products) == FALSE

\* Line 401: if not products
ProductsMissing(products) == products = <<>>

\* POST /inventory/recommendations, lines 395-411 up to the first llm.invoke
GetInventoryRecommendations(body, D) ==
    /\ Accept("/inventory/recommendations", body)
    /\ LET products == Get(body, "products", <<>>)
       IN  IF ProductsMissing(products)
           THEN /\ Answer(400, ErrorBody("products list is required"))
                /\ calls' = <<>>
                /\ UNCHANGED rng
           ELSE LoopFrom(products, 0, <<>>, <<>>, D)
    /\ UNCHANGED <<learning_data, unit>>

\* GET /agent/insights, lines 419-423 up to llm.invoke inside get_insights
GetAgentInsights ==
    /\ Accept("/agent/insights", <<>>)
    /\ pc' = "insights_llm"
    /\ calls' = <<[step |-> "insights", product |-> 0]>>
    /\ response' = NoResponse
    /\ UNCHANGED <<idx, recommendations, locals, learning_data, rng, unit>>

\* forecast_demand's llm.invoke returns ai_response.  In /forecast the
\* handler answers asdict(forecast); in process_product the forecast goes to
\* generate_recommendation, which runs up to its own llm.invoke.
ForecastLlmReturn(ai_response) ==
    /\ pc = "forecast_llm"
    /\ \E forecast \in {FinishForecast(locals, ai_response)} :
           IF request.endpoint = "/forecast"
           THEN /\ Answer(200, forecast)
                /\ UNCHANGED calls
           ELSE LET product_data == request.body.products[idx]
                    current_stock == Get(product_data, "current_stock", 0)
                IN  /\ locals' = RecommendLocals(product_data.product_id,
                                                 current_stock, forecast)
                    /\ pc' = "recommend_llm"
                    /\ calls' = Append(calls, [step |-> "recommend", product |-> idx])
                    /\ UNCHANGED <<response, idx, recommendations>>
    /\ UNCHANGED <<request, cause, served, learning_data, rng, unit>>

\* Mutant of LlmRaise: the recommendations made so far are answered with the error
LlmRaisePartial(step, e) ==
    /\ pc = step
    /\ Answer(200, [recommendations |-> recommendations, error |-> e])
    /\ cause' = step
    /\ UNCHANGED <<request, calls, served, learning_data, rng, unit>>

\* Mutant of LlmRaise: the failed call is made again
LlmRaiseRetries(step, e) ==
    /\ pc = step
    /\ calls' = Append(calls, calls[Len(calls)])
    /\ UNCHANGED <<pc, request, response, idx, recommendations, locals, cause,
                   served, learning_data, rng, unit>>

\* llm.invoke raises e: the handler's except clause answers 500, str(e)
LlmRaise(step, e) ==
    /\ pc = step
    /\ Answer(500, ErrorBody(e))
    /\ cause' = step
    /\ UNCHANGED <<request, calls, served, learning_data, rng, unit>>

ForecastLlmRaise(e) == LlmRaise("forecast_llm", e)
RecommendLlmRaise(e) == LlmRaise("recommend_llm", e)
InsightsLlmRaise(e) == LlmRaise("insights_llm", e)

\* Mutant of RecommendLlmReturn: process_product logs the recommendation in
\* learning_data
RecommendLlmReturnLearns(ai_reasoning, D) ==
    /\ pc = "recommend_llm"
    /\ IF AccuracyDivisionRaises(locals.demand_forecast)
       THEN /\ Answer(500, ErrorBody("float division by zero"))
            /\ cause' = "recommend_division"
            /\ UNCHANGED <<calls, rng, learning_data>>
       ELSE /\ LoopFrom(request.body.products, idx,
                        Append(recommendations, FinishRecommendation(locals, ai_reasoning)),
                        calls, D)
            /\ learning_data' = Append(learning_data, locals.product_id)
            /\ UNCHANGED cause
    /\ UNCHANGED <<request, served, unit>>

\* generate_recommendation's llm.invoke returns ai_reasoning: the
\* recommendation is appended and the loop goes on.
RecommendLlmReturn(ai_reasoning, D) ==
    /\ pc = "recommend_llm"
    /\ IF AccuracyDivisionRaises(locals.demand_forecast)
       THEN /\ Answer(500, ErrorBody("float division by zero"))
            /\ cause' = "recommend_division"
            /\ UNCHANGED <<calls, rng>>
       ELSE /\ LoopFrom(request.body.products, idx,
                        Append(recommendations, FinishRecommendation(locals, ai_reasoning)),
                        calls, D)
            /\ UNCHANGED cause
    /\ UNCHANGED <<request, served, learning_data, unit>>

\* get_insights, lines 357-367 (the timestamps are left out)
GetInsights(insights_response) ==
    [insights |-> insights_response,
     model_performance |-> [total_predictions |-> Len(learning_data),
                            avg_confidence |-> 750]]

InsightsLlmReturn(insights_response) ==
    /\ pc = "insights_llm"
    /\ Answer(200, GetInsights(insights_response))
    /\ UNCHANGED <<request, calls, cause, served, learning_data, rng, unit>>

Next ==
    \/ HealthCheck
    \/ \E body \in ForecastBodies : GenerateForecast(body, NextServiceDraws(rng))
    \/ \E body \in RecommendationBodies :
          GetInventoryRecommendations(body, NextServiceDraws(rng))
    \/ GetAgentInsights
    \/ \E r \in Replies : ForecastLlmReturn(r)
    \/ \E e \in LlmErrors : ForecastLlmRaise(e)
    \/ \E r \in ServiceReasonings : RecommendLlmReturn(r, NextServiceDraws(rng))
    \/ \E e \in LlmErrors : RecommendLlmRaise(e)
    \/ \E r \in Replies : InsightsLlmReturn(r)
    \/ \E e \in LlmErrors : InsightsLlmRaise(e)

Spec == Init /\ [][Next]_vars

\* The remote call the handler waits on (lines 207, 290, 357) returns or raises.
LlmCompletes ==
    \/ \E r \in Replies : ForecastLlmReturn(r)
    \/ \E e \in LlmErrors : ForecastLlmRaise(e)
    \/ \E r \in ServiceReasonings : RecommendLlmReturn(r, NextServiceDraws(rng))
    \/ \E e \in LlmErrors : RecommendLlmRaise(e)
    \/ \E r \in Replies : InsightsLlmReturn(r)
    \/ \E e \in LlmErrors : InsightsLlmRaise(e)

\* The request bodies of the specification with fairness: with and without a
\* product_id, lists with entries that are processed and entries that are
\* skipped.
LiveForecastBodies == {[product_id |-> "OLJCESPC7Z"], [forecast_days |-> 14]}
LiveProductEntries ==
    {[product_id |-> "OLJCESPC7Z", current_stock |-> 45], [current_stock |-> 23]}
LiveRecommendationBodies ==
    {[products |-> ps] : ps \in SeqsUpTo(LiveProductEntries, MaxProducts)}
    \cup {[name |-> "Sunglasses"]}

NextLive ==
    \/ HealthCheck
    \/ \E body \in LiveForecastBodies : GenerateForecast(body, NextServiceDraws(rng))
    \/ \E body \in LiveRecommendationBodies :
          GetInventoryRecommendations(body, NextServiceDraws(rng))
    \/ GetAgentInsights
    \/ \E r \in Replies : ForecastLlmReturn(r)
    \/ \E e \in LlmErrors : ForecastLlmRaise(e)
    \/ \E r \in ServiceReasonings : RecommendLlmReturn(r, NextServiceDraws(rng))
    \/ \E e \in LlmErrors : RecommendLlmRaise(e)
    \/ \E r \in Replies : InsightsLlmReturn(r)
    \/ \E e \in LlmErrors : InsightsLlmRaise(e)

\* The service when every remote call eventually returns or raises.  Nothing
\* else is assumed: requests need not arrive.
SpecLive == Init /\ [][NextLive]_vars /\ WF_vars(LlmCompletes)

----------------------------------------------------------------------------
(* The forecasting and optimisation pipeline over every combination of the
   draws: one product per request, and in one behaviour the random module
   yields the same draws to every forecast_demand. *)

EngineForecastBodies == {[product_id |-> "OLJCESPC7Z"]}
EngineRecommendationBodies ==
    {[products |-> <<[product_id |-> "OLJCESPC7Z", current_stock |-> 45]>>]}

InitEngine == InitApp /\ rng \in WideDraws /\ unit = NoUnit

NextEngine ==
    \/ \E body \in EngineForecastBodies : GenerateForecast(body, {rng})
    \/ \E body \in EngineRecommendationBodies : GetInventoryRecommendations(body, {rng})
    \/ \E r \in Replies : ForecastLlmReturn(r)
    \/ \E e \in LlmErrors : ForecastLlmRaise(e)
    \/ \E r \in Replies : RecommendLlmReturn(r, {rng})
    \/ \E e \in LlmErrors : RecommendLlmRaise(e)

SpecEngine == InitEngine /\ [][NextEngine]_vars

----------------------------------------------------------------------------
(* Direct calls of the component operations on arbitrary inputs: the sales
   history handed to the analysis of forecast_demand, and the DemandForecast
   handed to generate_recommendation. *)

UnitStep == 1900        \* direct calls: grid of predicted_demand, thousandths

\* sales histories: a weekend level, a weekday level and a ramp
UnitHistory(a, b, r) ==
    [k \in 1..HistoryDays |->
        Max(0, (IF IsWeekend(k - 1) THEN a ELSE b) + r * ((k - 1) \div 10))]

\* a history that is not constant and whose least-squares slope is exactly 0:
\* it rises by one a day to the middle and falls back
UnitTent == [k \in 1..HistoryDays |-> Min(k - 1, HistoryDays - k)]

UnitHistories ==
    {UnitHistory(a, b, r) : a \in 0..MaxUnitSale, b \in 0..MaxUnitSale, r \in {-1, 0, 1}}
    \cup {UnitTent}

UnitSignals ==
    {[weather_impact |-> 0, social_impact |-> 0, economic_impact |-> 2250],
     [weather_impact |-> 12000, social_impact |-> 2079, economic_impact |-> 6750],
     [weather_impact |-> -6000, social_impact |-> 5001, economic_impact |-> 5000]}

\* DemandForecast values with predicted_demand >= 0 and any interval, built
\* from Python floats or from numpy float64
UnitForecasts ==
    {[product_id |-> "OLJCESPC7Z",
      forecast_period_days |-> DefaultForecastDays,
      predicted_demand |-> k * UnitStep,
      confidence_interval |-> <<lo * UnitStep, hi * UnitStep + off>>,
      trend_direction |-> "stable",
      seasonality_factor |-> Milli,
      external_signals |-> sig,
      float_type |-> ft] :
        k \in 0..MaxUnitStep, lo \in 0..3, hi \in 0..3, off \in {0, 700},
        sig \in UnitSignals, ft \in {"float", "numpy.float64"}}

\* every (condition, temperature) get_weather_data can draw
UnitWeather ==
    {[op |-> "weather", condition |-> WeatherConditions[c], temperature |-> t] :
        c \in 1..Len(WeatherConditions), t \in MinTemperature..MaxTemperature}

InitUnits ==
    /\ InitApp
    /\ rng \in ServiceDraws
    /\ unit \in {[op |-> "history", sales_values |-> h] : h \in UnitHistories}
             \cup {[op |-> "forecast", demand_forecast |-> f] : f \in UnitForecasts}
             \cup UnitWeather

\* forecast_demand's analysis (lines 166-178) of the history sales_values
CallForecastAnalysis ==
    /\ unit.op = "history"
    /\ \E slope \in LinregressSlopeSigns(unit.sales_values) :
          unit' = [op |-> "forecast_demand",
                   sales_values |-> unit.sales_values,
                   slope |-> slope,
                   trend_direction |-> TrendDirection(slope),
                   seasonality_factor |-> SeasonalityFactor(unit.sales_values)]
    /\ UNCHANGED <<pc, request, response, idx, recommendations, locals, calls,
                   cause, served, learning_data, rng>>

\* generate_recommendation(product_id, current_stock, demand_forecast) with
\* llm.invoke returning ai_reasoning
CallGenerateRecommendation(current_stock, ai_reasoning) ==
    /\ unit.op = "forecast"
    /\ LET demand_forecast == unit.demand_forecast
           l == RecommendLocals(demand_forecast.product_id, current_stock,
                                demand_forecast)
       IN  unit' = IF AccuracyDivisionRaises(demand_forecast)
                   THEN [op |-> "generate_recommendation",
                         demand_forecast |-> demand_forecast,
                         locals |-> l,
                         raised |-> "ZeroDivisionError"]
                   ELSE [op |-> "generate_recommendation",
                         demand_forecast |-> demand_forecast,
                         locals |-> l,
                         raised |-> "none",
                         result |-> FinishRecommendation(l, ai_reasoning)]
    /\ UNCHANGED <<pc, request, response, idx, recommendations, locals, calls,
                   cause, served, learning_data, rng>>

\* get_weather_data with the draws (temperature, condition) of unit
CallGetWeatherData ==
    /\ unit.op = "weather"
    /\ unit' = [op |-> "get_weather_data",
                weather_data |-> GetWeatherData(unit.temperature, unit.condition)]
    /\ UNCHANGED <<pc, request, response, idx, recommendations, locals, calls,
                   cause, served, learning_data, rng>>

NextUnits ==
    \/ CallForecastAnalysis
    \/ CallGetWeatherData
    \/ \E r \in Replies : CallGenerateRecommendation(45, r)

SpecUnits == InitUnits /\ [][NextUnits]_vars

----------------------------------------------------------------------------
(* Properties of the service (checked under Spec) *)

Answered == pc = "idle" /\ response # NoResponse
IsForecastRequest == request.endpoint = "/forecast"
IsRecommendationsRequest == request.endpoint = "/inventory/recommendations"

\* An entry of a products list carries a product_id: the key is there with a
\* non-empty value.
CarriesProductId(entry) == HasKey(entry, "product_id") /\ entry.product_id # ""

\* C1: a POST /forecast whose body lacks product_id is answered 400 with the
\* error "product_id is required", whatever forecast_days is and however many
\* requests were served before; the handler never waits on anything for it.
C1_MissingProductIdIs400 ==
    (IsForecastRequest /\ ~HasKey(request.body, "product_id"))
        => response = Respond(400, ErrorBody("product_id is required"))

\* C1 witness: the last request of a run is a /forecast with forecast_days
\* and no product_id, and it was answered 400.
C1_Witness ==
    /\ IsForecastRequest
    /\ ~HasKey(request.body, "product_id")
    /\ HasKey(request.body, "forecast_days")
    /\ served = MaxRequests
    /\ response.status = 400

\* C2: a POST /inventory/recommendations with products = [] or without a
\* products field is answered 400, never 200 with an empty list.
C2_EmptyProductsIs400 ==
    (IsRecommendationsRequest /\ Get(request.body, "products", <<>>) = <<>>)
        => /\ response.status = 400
           /\ response.body = ErrorBody("products list is required")

\* C2 witness: a request with products = [] was answered 400.
C2_Witness ==
    /\ IsRecommendationsRequest
    /\ HasKey(request.body, "products")
    /\ request.body.products = <<>>
    /\ response.status = 400

\* C3: when a non-empty products list has been handled with no remote call
\* failing, the answer is 200 with one recommendation per entry that carries
\* a product_id, in input order, each echoing the entry's product_id and
\* current_stock (0 when absent); the other entries produce nothing.
C3_OneRecommendationPerProduct ==
    (/\ IsRecommendationsRequest
     /\ Get(request.body, "products", <<>>) # <<>>
     /\ Answered
     /\ cause = "none")
        => LET carrying == SelectSeq(request.body.products, CarriesProductId)
           IN  /\ response.status = 200
               /\ DOMAIN response.body = {"recommendations"}
               /\ Len(response.body.recommendations) = Len(carrying)
               /\ \A j \in 1..Len(carrying) :
                     /\ response.body.recommendations[j].product_id
                            = carrying[j].product_id
                     /\ response.body.recommendations[j].current_stock
                            = (IF HasKey(carrying[j], "current_stock")
                               THEN carrying[j].current_stock ELSE 0)

\* C3 witness: a list of two entries, one skipped, answered 200 with the one
\* recommendation of the entry without current_stock.
C3_Witness ==
    /\ IsRecommendationsRequest
    /\ Answered
    /\ response.status = 200
    /\ Len(request.body.products) = 2
    /\ ~CarriesProductId(request.body.products[1])
    /\ Len(response.body.recommendations) = 1
    /\ response.body.recommendations[1].current_stock = 0

\* C4: when the forecast or the recommend step of a product fails, the
\* request is answered 500 with a body holding only `error`: no
\* recommendation computed before is returned, and the handler has stopped
\* at the failing call (no call for a later product follows it).
C4_FailureAbortsBatch ==
    (IsRecommendationsRequest /\ cause \in {"forecast_llm", "recommend_llm"})
        => /\ Answered
           /\ response.status = 500
           /\ DOMAIN response.body = {"error"}
           /\ calls # <<>>
           /\ calls[Len(calls)].step = (IF cause = "forecast_llm" THEN "forecast"
                                        ELSE "recommend")
           /\ \A i \in 1..Len(calls) : calls[i].product <= calls[Len(calls)].product
           /\ calls[Len(calls)].product <= Len(request.body.products)

\* C4 witness: the forecast of the second product failed after the first
\* product's recommendation had been computed.
C4_Witness ==
    /\ IsRecommendationsRequest
    /\ cause = "forecast_llm"
    /\ Len(calls) = 3
    /\ calls[3].product = 2
    /\ response.status = 500

\* The answers a failing llm.invoke of generate_recommendation or of
\* get_insights produces (LlmRaise: 500 and str(e)).
OtherFailureResponses == {Respond(500, ErrorBody(e)) : e \in LlmErrors}

\* C5: when the remote call of forecast_demand fails, the request is answered
\* with an error that can be told apart from the other internal failures (a
\* "forecast unavailable" error), no DemandForecast is returned, and the
\* service is ready for the next request.
C5_ForecastFailureDistinguishable ==
    (cause = "forecast_llm")
        => /\ Answered
           /\ response.status = 500
           /\ DOMAIN response.body = {"error"}
           /\ response \notin OtherFailureResponses

RECURSIVE C13_ExpectedCalls(_, _)
\* forecast then recommend for each entry from the k-th on that carries a
\* product_id, in input order
C13_ExpectedCalls(products, k) ==
    IF k > Len(products) THEN <<>>
    ELSE (IF CarriesProductId(products[k])
          THEN <<[step |-> "forecast", product |-> k],
                 [step |-> "recommend", product |-> k]>>
          ELSE <<>>) \o C13_ExpectedCalls(products, k + 1)

IsPrefix(p, q) == Len(p) <= Len(q) /\ \A i \in 1..Len(p) : p[i] = q[i]

\* C13: a POST /inventory/recommendations whose list has N entries carrying a
\* product_id and that is answered 200 has made exactly 2N remote calls:
\* forecast then recommend for each such entry in input order.  The calls
\* are sequential and never repeated: at every moment the calls made are a
\* prefix of that sequence, and the one call that has not returned is the
\* last one made.
C13_TwoSequentialCallsPerProduct ==
    (IsRecommendationsRequest /\ Get(request.body, "products", <<>>) # <<>>)
        => LET products == request.body.products
               expected == C13_ExpectedCalls(products, 1)
               n == Len(SelectSeq(products, CarriesProductId))
           IN  /\ Len(expected) = 2 * n
               /\ IsPrefix(calls, expected)
               /\ (Answered /\ response.status = 200) => calls = expected
               /\ (pc = "forecast_llm")
                     => /\ calls # <<>>
                        /\ calls[Len(calls)] = [step |-> "forecast", product |-> idx]
               /\ (pc = "recommend_llm")
                     => /\ calls # <<>>
                        /\ calls[Len(calls)] = [step |-> "recommend", product |-> idx]

\* C13 witness: a list of two entries carrying a product_id answered 200
\* after four calls.
C13_Witness ==
    /\ IsRecommendationsRequest
    /\ Answered
    /\ response.status = 200
    /\ Len(response.body.recommendations) = 2
    /\ Len(calls) = 4

IsInsightsRequest == request.endpoint = "/agent/insights"

\* C15: no request changes the state the agent keeps: after any sequence of
\* /forecast, /inventory/recommendations and /agent/insights requests,
\* answered or failed, learning_data is still empty, and every /agent/insights
\* answer reports total_predictions = 0 and avg_confidence = 0.75.
C15_LearningDataStaysEmpty ==
    /\ learning_data = <<>>
    /\ (IsInsightsRequest /\ Answered /\ response.status = 200)
          => /\ response.body.model_performance.total_predictions = 0
             /\ response.body.model_performance.avg_confidence = 750

\* C15 witness: the last request of a run, after another one, is an
\* /agent/insights answered with total_predictions = 0.
C15_Witness ==
    /\ IsInsightsRequest
    /\ served = MaxRequests
    /\ Answered
    /\ response.status = 200
    /\ response.body.model_performance.total_predictions = 0

Waiting == pc # "idle"

\* C16: provided each remote call eventually returns or raises (SpecLive),
\* every accepted request eventually receives a response, with status 200,
\* 400 or 500, and exactly one: the response stands until the next request is
\* accepted.  Nothing but its remote call returning or raising moves a
\* waiting request on (there is no timeout and no cancellation): while the
\* call has not returned the request has no response.
C16_EveryRequestAnswered ==
    /\ Waiting ~> Answered
    /\ [](Answered => response.status \in {200, 400, 500})
    /\ [](Waiting => response = NoResponse)
    /\ [][(Waiting /\ <<pc, response>>' # <<pc, response>>) => LlmCompletes]_vars
    /\ [][(~Waiting /\ response' # response) => served' = served + 1]_vars

\* C16 witness: a request that waited on two remote calls for each of
\* MaxProducts products has its response.
C16_Witness ==
    /\ Answered
    /\ served = MaxRequests
    /\ Len(calls) = 2 * MaxProducts
    /\ response.status \in {200, 500}

----------------------------------------------------------------------------
(* Properties of generate_recommendation and of forecast_demand's analysis on
   arbitrary inputs (checked under SpecUnits) *)

Recommended == unit.op = "generate_recommendation"

\* C6: for every forecast handed to generate_recommendation (predicted_demand
\* >= 0, any interval) the call does not fail and confidence_score lies in
\* [0.1, 0.95]; with predicted_demand = 0 it is 0.1.
C6_ConfidenceScoreBounded ==
    Recommended
        => /\ unit.raised = "none"
           /\ unit.result.confidence_score >= 100
           /\ unit.result.confidence_score <= 950
           /\ (unit.demand_forecast.predicted_demand = 0
                  => unit.result.confidence_score = 100)

\* r = int(num / den) for num >= 0: truncation
IsTruncationOf(r, num, den) == r * den <= num /\ num < (r + 1) * den
\* r = round(num / den): the nearest integer (either one on a tie)
IsRoundingOf(r, num, den) == 2 * Abs(num - r * den) <= den

\* C9 (as amended): generate_recommendation computes
\*   safety_stock = max(5, int(predicted_demand * 0.3)),
\*   reorder_point = int(predicted_demand * 0.5 + safety_stock),
\*   buffer_stock = int(0.2 * |high - low|),
\*   recommended_stock = int(predicted_demand * 1.5 + buffer_stock),
\* where int truncates toward zero, and returns reorder_point and
\* recommended_stock unchanged.
C9_StockLevelsTruncate ==
    Recommended
        => LET l == unit.locals
               pd == unit.demand_forecast.predicted_demand
               ci == unit.demand_forecast.confidence_interval
               den == 10 * Milli
           IN  /\ l.safety_stock >= MinSafetyStock
               /\ (l.safety_stock = MinSafetyStock
                      => pd * 3 < (MinSafetyStock + 1) * den)
               /\ (l.safety_stock > MinSafetyStock
                      => IsTruncationOf(l.safety_stock, pd * 3, den))
               /\ IsTruncationOf(l.reorder_point, pd * 5 + l.safety_stock * den, den)
               /\ IsTruncationOf(l.buffer_stock, 2 * Abs(ci[2] - ci[1]), den)
               /\ IsTruncationOf(l.recommended_stock,
                                 pd * 15 + l.buffer_stock * den, den)
               /\ (unit.raised = "none"
                      => /\ unit.result.reorder_point = l.reorder_point
                         /\ unit.result.recommended_stock = l.recommended_stock)

\* C9 as stated: the same four quantities with round (to the nearest
\* integer) in place of int.
C9_StockLevelsRound ==
    Recommended
        => LET l == unit.locals
               pd == unit.demand_forecast.predicted_demand
               ci == unit.demand_forecast.confidence_interval
               den == 10 * Milli
           IN  /\ l.safety_stock >= MinSafetyStock
               /\ (l.safety_stock = MinSafetyStock
                      => 2 * pd * 3 <= (2 * MinSafetyStock + 1) * den)
               /\ (l.safety_stock > MinSafetyStock
                      => IsRoundingOf(l.safety_stock, pd * 3, den))
               /\ IsRoundingOf(l.reorder_point, pd * 5 + l.safety_stock * den, den)
               /\ IsRoundingOf(l.buffer_stock, 2 * Abs(ci[2] - ci[1]), den)
               /\ IsRoundingOf(l.recommended_stock,
                               pd * 15 + l.buffer_stock * den, den)

\* C9 witness: a call where truncation and rounding differ: predicted_demand
\* * 0.3 is above the floor of 5 with a fraction over one half.
C9_Witness ==
    /\ Recommended
    /\ unit.locals.safety_stock > MinSafetyStock
    /\ (unit.demand_forecast.predicted_demand * 3) % (10 * Milli) > 5 * Milli
    /\ unit.raised = "none"

\* C10: when the weekday sales (day_of_week not in {5, 6}) have mean 0 the
\* seasonality_factor is exactly 1.0, reached without dividing by zero;
\* otherwise it is mean(weekend sales) / mean(weekday sales) (to the
\* thousandth).
C10_SeasonalityFactor ==
    (unit.op = "forecast_demand")
        => LET sales == unit.sales_values
               weekend == SumOver([k \in 1..HistoryDays |->
                                     IF k \in WeekendDays THEN sales[k] ELSE 0],
                                  1, HistoryDays)
               weekday == SumOver([k \in 1..HistoryDays |->
                                     IF k \in WeekdayDays THEN sales[k] ELSE 0],
                                  1, HistoryDays)
               sf == unit.seasonality_factor
           IN  /\ sf \notin {FloatInf, FloatNegInf, FloatNaN}
               /\ (weekday = 0 => sf = Milli)
               /\ (weekday > 0 =>
                      IsTruncationOf(sf,
                                     weekend * Cardinality(WeekdayDays) * Milli,
                                     weekday * Cardinality(WeekendDays)))

\* C10 witness: a history whose weekday sales are all 0 and whose weekend
\* sales are not, analysed with seasonality_factor 1.0.
C10_Witness ==
    /\ unit.op = "forecast_demand"
    /\ \A k \in WeekdayDays : unit.sales_values[k] = 0
    /\ \E k \in WeekendDays : unit.sales_values[k] > 0
    /\ unit.seasonality_factor = Milli

\* C11: for every 30-value history the analysis of forecast_demand gives a
\* trend_direction that is one of increasing / decreasing / stable and
\* follows the sign of the slope linregress fitted: stable iff that slope is
\* 0, increasing iff it is > 0, decreasing iff it is < 0.  The fitted slope
\* has the sign of the exact least-squares slope sum((x - mean x)(y - mean y))
\* whenever that is not 0, and it is 0 for a constant history.
C11_TrendFollowsSlope ==
    (unit.op = "forecast_demand")
        => LET sales == unit.sales_values
               n == Len(sales)
               total == SumOver(sales, 1, n)
               \* 2n * sum((x - mean x)(y - mean y)), x = k - 1
               exact == SumOver([k \in 1..n |->
                                   (2 * (k - 1) - (n - 1)) * (n * sales[k] - total)],
                                1, n)
               td == unit.trend_direction
           IN  /\ n = HistoryDays
               /\ td \in {"increasing", "decreasing", "stable"}
               /\ (td = "stable") <=> (unit.slope = 0)
               /\ (td = "increasing") <=> (unit.slope > 0)
               /\ (td = "decreasing") <=> (unit.slope < 0)
               /\ (exact > 0 => td = "increasing")
               /\ (exact < 0 => td = "decreasing")
               /\ ((\A k \in 1..n : sales[k] = sales[1]) => td = "stable")
               /\ (td = "stable" => exact = 0)

\* C11 witness: a constant history of positive sales analysed as stable.
C11_Witness ==
    /\ unit.op = "forecast_demand"
    /\ unit.sales_values[1] > 0
    /\ \A k \in 1..HistoryDays : unit.sales_values[k] = unit.sales_values[1]
    /\ unit.trend_direction = "stable"

\* the per-condition table of the weather impact, in tenths
C12_Table ==
    {<<"sunny", 1>>, <<"rainy", 3>>, <<"cloudy", 0>>, <<"snowy", 4>>, <<"stormy", 2>>}

\* C12: for each of the five conditions and every integer temperature in
\* [-10, 35] the impact score of the weather data is the table value of the
\* condition, plus 0.2 when temperature < 0 or temperature > 30, capped at
\* 1.0; it lies in [0, 1].
C12_WeatherImpact ==
    (unit.op = "get_weather_data")
        => LET w == unit.weather_data
               extreme == w.temperature < 0 \/ w.temperature > 30
           IN  /\ w.impact_score >= 0
               /\ w.impact_score <= 10
               /\ \E row \in C12_Table :
                     /\ row[1] = w.condition
                     /\ LET sum == row[2] + (IF extreme THEN 2 ELSE 0)
                        IN  w.impact_score = (IF sum > 10 THEN 10 ELSE sum)

\* C12 witness: snowy weather at an extreme temperature, the largest score
\* (0.6), and so below the cap.
C12_Witness ==
    /\ unit.op = "get_weather_data"
    /\ unit.weather_data.condition = "snowy"
    /\ unit.weather_data.temperature = MaxTemperature
    /\ unit.weather_data.impact_score = 6

----------------------------------------------------------------------------
(* Properties of the pipeline over every draw (checked under SpecEngine) *)

\* the DemandForecast values forecast_demand has returned in this state
ReturnedForecasts ==
    (IF IsForecastRequest /\ Answered /\ response.status = 200
     THEN {response.body} ELSE {})
    \cup (IF pc = "recommend_llm" THEN {locals.demand_forecast} ELSE {})

\* C7: every DemandForecast returned by forecast_demand has
\* 0 <= low <= predicted_demand <= high, and low = 0 whenever
\* predicted_demand - 1.96 * sigma (sigma = (high - predicted_demand) / 1.96)
\* is negative.
C7_IntervalBracketsDemand ==
    \A f \in ReturnedForecasts :
        LET low == f.confidence_interval[1]
            high == f.confidence_interval[2]
            margin == high - f.predicted_demand
        IN  /\ 0 <= low
            /\ low <= f.predicted_demand
            /\ f.predicted_demand <= high
            /\ (f.predicted_demand - margin < 0 => low = 0)
            /\ (f.predicted_demand - margin >= 0 => low = f.predicted_demand - margin)

\* C7 witness: a returned forecast whose lower bound was clamped to 0.
C7_Witness ==
    \E f \in ReturnedForecasts :
        /\ f.predicted_demand > 0
        /\ 2 * f.predicted_demand - f.confidence_interval[2] < 0
        /\ f.confidence_interval[1] = 0

\* C14: the DemandForecast forecast_demand returns does not depend on the
\* model's reply: whenever its llm.invoke returns, the forecast handed back
\* (to the /forecast answer or to generate_recommendation) is, in every
\* field, the one every other reply would have given for the same sales
\* history and the same signal draws.
C14_ForecastIgnoresReply ==
    [][(pc = "forecast_llm" /\ cause' = "none" /\ pc' # "forecast_llm")
          => LET returned == IF request.endpoint = "/forecast"
                             THEN response'.body
                             ELSE locals'.demand_forecast
             IN  /\ locals.sales_values
                       = GenerateMockSalesData(rng.base, rng.trend, rng.noise)
                 /\ \A r \in Replies : returned = FinishForecast(locals, r)]_vars

\* C14 witness: with the same draws as the request before it, a second
\* /forecast request has been answered with its forecast.
C14_Witness ==
    /\ IsForecastRequest
    /\ served = MaxRequests
    /\ Answered
    /\ response.status = 200
    /\ response.body.predicted_demand > 0

\* the recommendations of the answer to the request, if it has any
AnsweredRecommendations ==
    IF IsRecommendationsRequest /\ Answered /\ response.status = 200
    THEN response.body.recommendations ELSE <<>>

\* C17: in every recommendation produced by process_product (forecast_demand
\* followed by generate_recommendation), external_factors holds nothing but
\* "weather_impact (increasing demand)" and "economic_impact (increasing
\* demand)": social_impact is never listed, nothing is annotated "decreasing
\* demand", and weather_impact is listed only when the weather drawn was
\* snowy with temperature < 0 or > 30.
C17_ExternalFactorsOfPipeline ==
    \A j \in 1..Len(AnsweredRecommendations) :
        LET external_factors == AnsweredRecommendations[j].external_factors
        IN  /\ \A i \in 1..Len(external_factors) :
                  external_factors[i] \in {<<"weather_impact", "increasing demand">>,
                                           <<"economic_impact", "increasing demand">>}
            /\ (\E i \in 1..Len(external_factors) :
                      external_factors[i][1] = "weather_impact")
                  => /\ rng.condition = "snowy"
                     /\ (rng.temperature < 0 \/ rng.temperature > 30)

\* C17 witness: a recommendation for snowy weather at an extreme temperature
\* with the largest social trends lists the weather and the economic impact.
C17_Witness ==
    /\ Len(AnsweredRecommendations) = 1
    /\ rng.condition = "snowy"
    /\ rng.social = <<99, 99, 99, 99, 99>>
    /\ AnsweredRecommendations[1].external_factors
          = <<<<"weather_impact", "increasing demand">>,
              <<"economic_impact", "increasing demand">>>>

\* the safety-stock floor of 5 dominates and the interval is narrow
\* (buffer_stock = 0) in the recommendation being computed
FloorDominates ==
    /\ pc = "recommend_llm"
    /\ locals.demand_forecast.predicted_demand * 3 < MinSafetyStock * 10 * Milli
    /\ locals.buffer_stock = 0

\* C8 (as amended): for every forecast that forecast_demand can return,
\* generate_recommendation gives reorder_point <= recommended_stock, in the
\* recommendation being computed and in every recommendation answered.
C8_ReorderWithinRecommended ==
    /\ (pc = "recommend_llm" => locals.reorder_point <= locals.recommended_stock)
    /\ (IsRecommendationsRequest /\ Answered /\ response.status = 200)
          => \A j \in 1..Len(response.body.recommendations) :
                response.body.recommendations[j].reorder_point
                    <= response.body.recommendations[j].recommended_stock

\* C8 as stated: the forecasts of forecast_demand with a small
\* predicted_demand and a narrow interval, where the floor of 5 dominates,
\* get a reorder_point strictly greater than recommended_stock.
C8_ReorderExceedsWhenFloorDominates ==
    FloorDominates => locals.reorder_point > locals.recommended_stock

\* C8 witness: the floor dominates, the interval is narrow, and reorder_point
\* equals recommended_stock.
C8_Witness ==
    /\ FloorDominates
    /\ locals.safety_stock = MinSafetyStock
    /\ locals.reorder_point = locals.recommended_stock

====
